---- MODULE Spec2Model ----
(***************************************************************************)
(* AndromedaBot (src/main.py): the /marketcap command of a Telegram bot.   *)
(* The handler fetches the circulating supply and the ANDR price over     *)
(* HTTP (aiohttp_retry, 3 attempts), keeps each in a one-slot TTLCache     *)
(* and replies with supply * price, or with a failure text.               *)
(*                                                                         *)
(* Floats are IEEE-754 doubles, computed with natural numbers of any size; *)
(* JSON values are tagged records, Python strings sequences of             *)
(* one-character strings, and the result of a Python expression is either  *)
(* Ok(value) or Raise(exception name).                                     *)
(***************************************************************************)
EXTENDS Integers, Sequences, FiniteSets, TLC

(***************************************************************************)
(* Bounds of the model.                                                    *)
(***************************************************************************)
MaxTicks == 2
MaxInvocations == 2
MaxSupplyMantissa == 25
MaxPriceTenths == 83

(***************************************************************************)
(* Program constants.                                                      *)
(***************************************************************************)
SupplyTTL == 86400
PriceTTL == 300
Attempts == 3
StatusOK == 200
ServerErrorFloor == 500

FailureText == "Failed to fetch data, please try again later."
ReplyPrefix == "ANDR Market Cap: "

(***************************************************************************)
(* Results of evaluating Python expressions.                               *)
(***************************************************************************)
Ok(v) == [ok |-> TRUE, v |-> v]
Raise(x) == [ok |-> FALSE, exc |-> x]

None == [t |-> "null"]

(***************************************************************************)
(* Natural numbers of any size: the sequence of their digits in base 2^15, *)
(* least significant first, without leading zeros (zero is <<>>).          *)
(***************************************************************************)
Base == 32768
LimbBits == 15

Max(a, b) == IF a >= b THEN a ELSE b

MaxOf(S) == CHOOSE i \in S : \A j \in S : j <= i

MinOf(S) == CHOOSE i \in S : \A j \in S : i <= j

RECURSIVE Pow2(_)
Pow2(n) == IF n = 0 THEN 1 ELSE 2 * Pow2(n - 1)

\* Limb i of x, zero beyond its length.
Limb(x, i) == IF i >= 1 /\ i <= Len(x) THEN x[i] ELSE 0

BTrim(x) ==
    LET nz == {i \in 1..Len(x) : x[i] # 0}
    IN IF nz = {} THEN <<>> ELSE SubSeq(x, 1, MaxOf(nz))

RECURSIVE BFromNat(_)
BFromNat(n) == IF n = 0 THEN <<>> ELSE <<n % Base>> \o BFromNat(n \div Base)

\* x + y: limb i receives a carry when a lower limb overflows and every
\* limb between the two is full.
BAdd(x, y) ==
    LET n == Max(Len(x), Len(y)) + 1
        s == [i \in 1..n |-> Limb(x, i) + Limb(y, i)]
        c == [i \in 1..n |->
                 IF \E j \in 1..(i - 1) :
                        /\ s[j] >= Base
                        /\ \A k \in (j + 1)..(i - 1) : s[k] = Base - 1
                 THEN 1 ELSE 0]
    IN BTrim([i \in 1..n |-> (s[i] + c[i]) % Base])

\* x - y for x >= y, with the borrows found as the carries of BAdd are.
BSub(x, y) ==
    LET n == Len(x)
        d == [i \in 1..n |-> x[i] - Limb(y, i)]
        b == [i \in 1..n |->
                 IF \E j \in 1..(i - 1) :
                        /\ d[j] < 0
                        /\ \A k \in (j + 1)..(i - 1) : d[k] = 0
                 THEN 1 ELSE 0]
    IN BTrim([i \in 1..n |-> (d[i] - b[i] + Base) % Base])

\* -1, 0 or 1 as x is below, equal to or above y.
BCmp(x, y) ==
    LET diff == {i \in 1..Max(Len(x), Len(y)) : Limb(x, i) # Limb(y, i)}
    IN IF diff = {} THEN 0
       ELSE IF Limb(x, MaxOf(diff)) < Limb(y, MaxOf(diff)) THEN -1
       ELSE 1

\* x * k, for k <= Base.
BMulSmall(x, k) ==
    BAdd([i \in 1..Len(x) |-> (x[i] * k) % Base],
         [i \in 1..(Len(x) + 1) |-> IF i = 1 THEN 0 ELSE (x[i - 1] * k) \div Base])

\* x * 2^n.
BShl(x, n) ==
    LET w == n \div LimbBits
        lo == Pow2(LimbBits - (n % LimbBits))
        up == Pow2(n % LimbBits)
    IN BTrim([i \in 1..(Len(x) + w + 1) |->
                 IF i <= w THEN 0
                 ELSE (Limb(x, i - w) % lo) * up + (Limb(x, i - w - 1) \div lo)])

\* floor(x / 2^n).
BShr(x, n) ==
    LET w == n \div LimbBits
        lo == Pow2(n % LimbBits)
        up == Pow2(LimbBits - (n % LimbBits))
    IN BTrim([i \in 1..Max(Len(x) - w, 0) |->
                 (Limb(x, i + w) \div lo) + (Limb(x, i + w + 1) % lo) * up])

RECURSIVE BMulRaw(_, _)
BMulRaw(x, y) ==
    IF y = <<>> THEN <<>>
    ELSE BAdd(BMulSmall(x, y[1]), <<0>> \o BMulRaw(x, Tail(y)))

BMul(x, y) == IF x = <<>> \/ y = <<>> THEN <<>> ELSE BTrim(BMulRaw(x, y))

\* Base^m mod k.
RECURSIVE PowMod(_, _)
PowMod(m, k) ==
    IF m = 0 THEN 1 % k
    ELSE LET h == PowMod(m \div 2, k)
         IN (((h * h) % k) * (IF m % 2 = 1 THEN Base % k ELSE 1)) % k

\* The number of the limbs lo..hi of x, mod k.
RECURSIVE BRem(_, _, _, _)
BRem(x, lo, hi, k) ==
    IF lo > hi THEN 0
    ELSE IF lo = hi THEN x[lo] % k
    ELSE LET mid == (lo + hi) \div 2
         IN (BRem(x, lo, mid, k)
               + BRem(x, mid + 1, hi, k) * PowMod(mid - lo + 1, k)) % k

\* Quotient and remainder of x by k, for 0 < k <= Base.
BDivSmall(x, k) ==
    [q |-> BTrim([i \in 1..Len(x) |->
                    (BRem(x, i + 1, Len(x), k) * Base + x[i]) \div k]),
     r |-> BRem(x, 1, Len(x), k)]

RECURSIVE SmallBitLen(_)
SmallBitLen(n) == IF n = 0 THEN 0 ELSE 1 + SmallBitLen(n \div 2)

BitLen(x) ==
    IF x = <<>> THEN 0
    ELSE LimbBits * (Len(x) - 1) + SmallBitLen(x[Len(x)])

\* Bit i of x (bit 0 is the lowest).
BBit(x, i) == (Limb(x, i \div LimbBits + 1) \div Pow2(i % LimbBits)) % 2

\* x mod 2^n = 0.
BLowZero(x, n) ==
    /\ \A j \in 1..(n \div LimbBits) : Limb(x, j) = 0
    /\ Limb(x, n \div LimbBits + 1) % Pow2(n % LimbBits) = 0

RECURSIVE SmallTrailingZeros(_)
SmallTrailingZeros(n) == IF n % 2 = 1 THEN 0 ELSE 1 + SmallTrailingZeros(n \div 2)

\* The number of zero bits x > 0 ends with.
BTrailingZeros(x) ==
    LET i == MinOf({j \in 1..Len(x) : x[j] # 0})
    IN LimbBits * (i - 1) + SmallTrailingZeros(x[i])

\* x * 10^n.
RECURSIVE BMulPow10(_, _)
BMulPow10(x, n) ==
    IF x = <<>> \/ n = 0 THEN x
    ELSE IF n >= 4 THEN BMulPow10(BMulSmall(x, 10000), n - 4)
    ELSE BMulPow10(BMulSmall(x, 10), n - 1)

\* floor(x / 10^n).
RECURSIVE BDivPow10(_, _)
BDivPow10(x, n) ==
    IF x = <<>> \/ n = 0 THEN x
    ELSE IF n >= 4 THEN BDivPow10(BDivSmall(x, 10000).q, n - 4)
    ELSE BDivPow10(BDivSmall(x, 10).q, n - 1)

(***************************************************************************)
(* IEEE-754 doubles, the floats of Python: a finite one is                 *)
(* (-1)^sign * mant * 2^exp2 with mant odd (zero: mant = <<>>, exp2 = 0),  *)
(* mant below 2^53, exp2 >= -1074 and the value below 2^1024; else it is   *)
(* an infinity or the NaN. Rounding is to nearest, ties to even.           *)
(***************************************************************************)
MantBits == 53
MinExp2 == -1074
DblMaxExp == 1024

FZero(sign) == [kind |-> "fin", sign |-> sign, mant |-> <<>>, exp2 |-> 0]
FInf(sign) == [kind |-> "inf", sign |-> sign, mant |-> <<>>, exp2 |-> 0]
FNaN == [kind |-> "nan", sign |-> 0, mant |-> <<>>, exp2 |-> 0]

IsZero(x) == x.kind = "fin" /\ x.mant = <<>>

\* The double nearest to (-1)^sign * (n + f) * 2^e, where 0 <= f < 1 and
\* f > 0 exactly if sticky; with sticky, n has more than 53 bits or e is
\* below -1074.
RoundToDouble(sign, n, e, sticky) ==
    IF n = <<>> THEN FZero(sign)
    ELSE LET drop == Max(BitLen(n) - MantBits, MinExp2 - e)
             q == IF drop <= 0 THEN n
                  ELSE LET fl == BShr(n, drop)
                           half == BBit(n, drop - 1) = 1
                           rest == sticky \/ ~BLowZero(n, drop - 1)
                           odd == BBit(fl, 0) = 1
                       IN IF half /\ (rest \/ odd) THEN BAdd(fl, <<1>>) ELSE fl
             e2 == IF drop <= 0 THEN e ELSE e + drop
         IN IF q = <<>> THEN FZero(sign)
            ELSE IF BitLen(q) + e2 > DblMaxExp THEN FInf(sign)
            ELSE LET tz == BTrailingZeros(q)
                 IN [kind |-> "fin", sign |-> sign, mant |-> BShr(q, tz),
                     exp2 |-> e2 + tz]

\* A lower bound of k * log2(10), within the integers at hand.
Log2Pow10Floor(k) ==
    LET c == MinOf({k, 600000000})
    IN 3321 * (c \div 1000) + (3321 * (c % 1000)) \div 1000

\* The double nearest to (-1)^sign * d * 10^e10. d * 10^e10 is at least
\* 10^e10, an infinity from 10^309 on; it is below
\* 2^(BitLen(d) - Log2Pow10Floor(-e10)), zero when that is at most 2^-1075.
DecimalToDouble(sign, d, e10) ==
    IF d = <<>> THEN FZero(sign)
    ELSE IF e10 >= 0
    THEN (IF e10 > 309 THEN FInf(sign)
          ELSE RoundToDouble(sign, BMulPow10(d, e10), 0, FALSE))
    ELSE IF BitLen(d) - Log2Pow10Floor(0 - e10) < MinExp2 - 1 THEN FZero(sign)
    ELSE LET s == 4 * (0 - e10) + 56
             n == BShl(d, s)
             q == BDivPow10(n, 0 - e10)
         IN RoundToDouble(sign, q, 0 - s, BMulPow10(q, 0 - e10) # n)

\* The double of the decimal m * 10^e, for a natural number m.
Dec(m, e) == DecimalToDouble(0, BFromNat(m), e)

\* a * b of two floats.
Mul(a, b) ==
    LET sign == (a.sign + b.sign) % 2
    IN IF a.kind = "nan" \/ b.kind = "nan" THEN FNaN
       ELSE IF a.kind = "inf" \/ b.kind = "inf"
       THEN (IF IsZero(a) \/ IsZero(b) THEN FNaN ELSE FInf(sign))
       ELSE RoundToDouble(sign, BMul(a.mant, b.mant), a.exp2 + b.exp2, FALSE)

(***************************************************************************)
(* JSON values as response.json() returns them. A number is held as the    *)
(* double float() makes of it (an integer too large for a double, where    *)
(* float() raises OverflowError, is no body of the model).                 *)
(***************************************************************************)
JNum(d) == [t |-> "num", n |-> d]
JStr(s) == [t |-> "str", s |-> s]
JBool(b) == [t |-> "bool", b |-> b]
JList(s) == [t |-> "list", l |-> s]
JObj(f) == [t |-> "obj", o |-> f]
NotJson == [t |-> "invalid"]

(***************************************************************************)
(* float() of a string. Strings are sequences of one-character strings    *)
(* over the code points 0 to 255. float() strips the six ASCII white       *)
(* space characters and, turned into blanks first, the other Unicode       *)
(* white space, of which the next line and the no-break space lie below    *)
(* 256; the separators \x1c-\x1f stay. White space and decimal digits      *)
(* beyond code point 255, which float() also takes, cannot be written.     *)
(***************************************************************************)
Digits == {"0", "1", "2", "3", "4", "5", "6", "7", "8", "9"}

DigitVal(c) ==
    CASE c = "0" -> 0 [] c = "1" -> 1 [] c = "2" -> 2 [] c = "3" -> 3
      [] c = "4" -> 4 [] c = "5" -> 5 [] c = "6" -> 6 [] c = "7" -> 7
      [] c = "8" -> 8 [] c = "9" -> 9

DigitChar(n) ==
    CASE n = 0 -> "0" [] n = 1 -> "1" [] n = 2 -> "2" [] n = 3 -> "3"
      [] n = 4 -> "4" [] n = 5 -> "5" [] n = 6 -> "6" [] n = 7 -> "7"
      [] n = 8 -> "8" [] n = 9 -> "9"

VerticalTab == ""
NextLine == ""
NoBreakSpace == " "

Whitespace == {" ", "\t", "\n", "\r", "\f", VerticalTab, NextLine, NoBreakSpace}

\* s.strip(): s without the white space at its ends.
Strip(s) ==
    IF \A i \in 1..Len(s) : s[i] \in Whitespace THEN <<>>
    ELSE SubSeq(s,
                CHOOSE i \in 1..Len(s) :
                    /\ s[i] \notin Whitespace
                    /\ \A j \in 1..(i - 1) : s[j] \in Whitespace,
                CHOOSE i \in 1..Len(s) :
                    /\ s[i] \notin Whitespace
                    /\ \A j \in (i + 1)..Len(s) : s[j] \in Whitespace)

\* An underscore stands between two digits.
UnderscoresOk(s) ==
    \A i \in 1..Len(s) :
        s[i] = "_" => /\ i > 1
                      /\ i < Len(s)
                      /\ s[i - 1] \in Digits
                      /\ s[i + 1] \in Digits

Lower(c) ==
    CASE c = "A" -> "a" [] c = "E" -> "e" [] c = "F" -> "f" [] c = "I" -> "i"
      [] c = "N" -> "n" [] c = "T" -> "t" [] c = "Y" -> "y" [] OTHER -> c

LowerSeq(s) == [i \in 1..Len(s) |-> Lower(s[i])]

\* s without its leading zeros.
DropZeros(s) ==
    IF \A i \in 1..Len(s) : s[i] = "0" THEN <<>>
    ELSE SubSeq(s,
                CHOOSE i \in 1..Len(s) :
                    s[i] # "0" /\ \A j \in 1..(i - 1) : s[j] = "0",
                Len(s))

\* s without its trailing zeros.
DropTrailingZeros(s) ==
    IF \A i \in 1..Len(s) : s[i] = "0" THEN <<>>
    ELSE SubSeq(s, 1,
                CHOOSE i \in 1..Len(s) :
                    s[i] # "0" /\ \A j \in (i + 1)..Len(s) : s[j] = "0")

\* The number a sequence of at most nine digits reads as.
RECURSIVE SmallValue(_)
SmallValue(s) ==
    IF s = <<>> THEN 0
    ELSE 10 * SmallValue(SubSeq(s, 1, Len(s) - 1)) + DigitVal(s[Len(s)])

\* The natural number a sequence of digits reads as.
RECURSIVE BFromDigits(_)
BFromDigits(s) ==
    IF Len(s) <= 9 THEN BFromNat(SmallValue(s))
    ELSE LET h == Len(s) \div 2
         IN BAdd(BMulPow10(BFromDigits(SubSeq(s, 1, h)), Len(s) - h),
                 BFromDigits(SubSeq(s, h + 1, Len(s))))

\* The largest exponent float() reads; a longer one counts as this one.
MaxAbsExp == 1100000000

\* The most digits float() reads, counted without the leading zeros, and
\* the most it reads after the point.
MaxDigits == 1000000000

\* The value of an exponent's digits: exact up to nine digits after the
\* leading zeros, MaxAbsExp beyond.
ExponentValue(s) ==
    IF Len(DropZeros(s)) > 9 THEN MaxAbsExp ELSE SmallValue(DropZeros(s))

\* The number after its sign, in lower case and without underscores:
\* inf, infinity, nan, or digits with at most one point and an exponent.
\* A numeral of more than MaxDigits digits is none. The zeros the digits
\* begin with are dropped and those they end with go into the power of ten.
ParseUnsigned(b, sign) ==
    IF b \in {<<"i", "n", "f">>, <<"i", "n", "f", "i", "n", "i", "t", "y">>}
    THEN Ok(FInf(sign))
    ELSE IF b = <<"n", "a", "n">> THEN Ok(FNaN)
    ELSE LET es == {i \in 1..Len(b) : b[i] = "e"}
             ep == IF es = {} THEN Len(b) + 1 ELSE CHOOSE i \in es : TRUE
             mant == SubSeq(b, 1, ep - 1)
             ex == SubSeq(b, ep + 1, Len(b))
             exneg == ex # <<>> /\ ex[1] = "-"
             exdig == IF ex # <<>> /\ ex[1] \in {"+", "-"} THEN Tail(ex) ELSE ex
             dots == {i \in 1..Len(mant) : mant[i] = "."}
             digs == SelectSeq(mant, LAMBDA c : c \in Digits)
             frac == IF dots = {} THEN 0
                     ELSE Len(mant) - (CHOOSE i \in dots : TRUE)
         IN IF \/ Cardinality(es) > 1
               \/ Cardinality(dots) > 1
               \/ digs = <<>>
               \/ Len(digs) + Cardinality(dots) # Len(mant)
               \/ es # {} /\ exdig = <<>>
               \/ \E i \in 1..Len(exdig) : exdig[i] \notin Digits
               \/ Len(DropZeros(digs)) > MaxDigits
               \/ frac > MaxDigits
            THEN Raise("ValueError")
            ELSE Ok(DecimalToDouble(sign,
                      BFromDigits(DropZeros(DropTrailingZeros(digs))),
                      (IF exneg THEN 0 - ExponentValue(exdig)
                       ELSE ExponentValue(exdig))
                        - frac + (Len(digs) - Len(DropTrailingZeros(digs)))))

\* float(s) of a string.
ParseFloat(s) ==
    LET t == Strip(s)
        neg == t # <<>> /\ t[1] = "-"
        body == IF t # <<>> /\ t[1] \in {"+", "-"} THEN Tail(t) ELSE t
    IN IF ~UnderscoresOk(t) THEN Raise("ValueError")
       ELSE ParseUnsigned(LowerSeq(SelectSeq(body, LAMBDA c : c # "_")),
                          IF neg THEN 1 ELSE 0)


Zero == Dec(0, 0)
One == Dec(1, 0)

\* float(x) of a JSON value.
PyFloat(x) ==
    CASE x.t = "num" -> Ok(x.n)
      [] x.t = "bool" -> Ok(IF x.b THEN One ELSE Zero)
      [] x.t = "str" -> ParseFloat(x.s)
      [] OTHER -> Raise("TypeError")

\* bool(x): Python truthiness.
Truthy(x) ==
    CASE x.t = "null" -> FALSE
      [] x.t = "num" -> ~IsZero(x.n)
      [] x.t = "bool" -> x.b
      [] x.t = "str" -> x.s # <<>>
      [] x.t = "list" -> x.l # <<>>
      [] x.t = "obj" -> DOMAIN x.o # {}

\* key in x, for a string key given as a TLA+ string and as its characters.
PyIn(key, chars, x) ==
    CASE x.t = "obj" -> Ok(key \in DOMAIN x.o)
      [] x.t = "list" -> Ok(\E i \in 1..Len(x.l) : x.l[i] = JStr(chars))
      [] x.t = "str" ->
            Ok(\E i \in 1..Len(x.s) :
                  /\ i + Len(chars) - 1 <= Len(x.s)
                  /\ SubSeq(x.s, i, i + Len(chars) - 1) = chars)
      [] OTHER -> Raise("TypeError")

\* x[key] for a string key.
PyGetKey(key, x) ==
    CASE x.t = "obj" ->
            IF key \in DOMAIN x.o THEN Ok(x.o[key]) ELSE Raise("KeyError")
      [] OTHER -> Raise("TypeError")

\* len(x).
PyLen(x) ==
    CASE x.t = "str" -> Ok(Len(x.s))
      [] x.t = "list" -> Ok(Len(x.l))
      [] x.t = "obj" -> Ok(Cardinality(DOMAIN x.o))
      [] OTHER -> Raise("TypeError")

\* x[0].
PyFirst(x) ==
    CASE x.t = "list" ->
            IF x.l # <<>> THEN Ok(x.l[1]) ELSE Raise("IndexError")
      [] x.t = "str" ->
            IF x.s # <<>> THEN Ok(JStr(<<x.s[1]>>)) ELSE Raise("IndexError")
      [] x.t = "obj" -> Raise("KeyError")
      [] OTHER -> Raise("TypeError")

(***************************************************************************)
(* f"${market_cap:,.0f}": the product rounded to an integer (ties to even) *)
(* with thousands separators.                                              *)
(***************************************************************************)
\* |x| rounded to the nearest integer, ties to even, for a finite x.
RoundedInteger(x) ==
    IF x.exp2 >= 0 THEN BShl(x.mant, x.exp2)
    ELSE LET k == 0 - x.exp2
             fl == BShr(x.mant, k)
             half == BBit(x.mant, k - 1) = 1
             rest == ~BLowZero(x.mant, k - 1)
         IN IF half /\ (rest \/ BBit(fl, 0) = 1) THEN BAdd(fl, <<1>>) ELSE fl

\* The decimal digits of x, four at a time, with leading zeros.
RECURSIVE BDigits4(_)
BDigits4(x) ==
    IF x = <<>> THEN <<>>
    ELSE LET d == BDivSmall(x, 10000)
         IN BDigits4(d.q) \o <<DigitChar(d.r \div 1000),
                                DigitChar((d.r \div 100) % 10),
                                DigitChar((d.r \div 10) % 10),
                                DigitChar(d.r % 10)>>

\* The decimal digits of x ("0" for zero).
BDigits(x) == IF x = <<>> THEN <<"0">> ELSE DropZeros(BDigits4(x))

\* RoundedDigits cutting the fraction off instead of rounding.
RoundedDigitsTruncating(d) ==
    BDigits(IF d.exp2 >= 0 THEN BShl(d.mant, d.exp2)
            ELSE BShr(d.mant, 0 - d.exp2))

\* The digits of |d| rounded to the nearest integer.
RoundedDigits(d) == BDigits(RoundedInteger(d))

\* The digits in groups of three from the right, with commas between.
Group(s) ==
    LET first == ((Len(s) - 1) % 3) + 1
    IN [i \in 1..(Len(s) + (Len(s) - 1) \div 3) |->
          IF i <= first THEN s[i]
          ELSE IF (i - first - 1) % 4 = 0 THEN ","
          ELSE s[first + 3 * ((i - first - 1) \div 4) + ((i - first - 1) % 4)]]

\* The string of a sequence of characters.
RECURSIVE Join(_)
Join(s) ==
    IF s = <<>> THEN ""
    ELSE IF Len(s) = 1 THEN s[1]
    ELSE Join(SubSeq(s, 1, Len(s) \div 2))
           \o Join(SubSeq(s, Len(s) \div 2 + 1, Len(s)))

\* The characters of f"{d:,.0f}".
FormatChars(d) ==
    IF d.kind = "nan" THEN <<"n", "a", "n">>
    ELSE (IF d.sign = 1 THEN <<"-">> ELSE <<>>)
           \o (IF d.kind = "inf" THEN <<"i", "n", "f">>
               ELSE Group(RoundedDigits(d)))

FormatMarketCap(d) == "$" \o Join(FormatChars(d))

(***************************************************************************)
(* cachetools.TTLCache(maxsize=1, ttl) used with a single key: the entry   *)
(* and the time it expires at.                                             *)
(***************************************************************************)
EmptyCache == [has |-> FALSE, val |-> Zero, expires |-> 0]

\* TTLCacheSet keeping an entry that has not expired.
TTLCacheSetKeep(cache, value, ttl, time) ==
    IF cache.has /\ time < cache.expires THEN cache
    ELSE [has |-> TRUE, val |-> value, expires |-> time + ttl]

\* cache[key] = value at time `time`.
TTLCacheSet(cache, value, ttl, time) ==
    [has |-> TRUE, val |-> value, expires |-> time + ttl]

\* TTLCacheGet taking an entry to live through the instant it expires at.
TTLCacheGetInclusive(cache, time) ==
    IF cache.has /\ time <= cache.expires THEN JNum(cache.val) ELSE None

\* TTLCacheGet serving the entry however old it is.
TTLCacheGetNoExpiry(cache, time) ==
    IF cache.has THEN JNum(cache.val) ELSE None

\* cache.get(key) at time `time`: the value while time < expires, else None.
TTLCacheGet(cache, time) ==
    IF cache.has /\ time < cache.expires THEN JNum(cache.val) ELSE None

(***************************************************************************)
(* aiohttp_retry: ExponentialRetry(attempts=3, factor=0.5) with its        *)
(* default statuses: a response is final on the last attempt or when its   *)
(* status is below 500.                                                    *)
(***************************************************************************)
\* IsSkipRetry taking every response before the last attempt for retried.
IsSkipRetryOnlyLast(attempt, status) ==
    attempt = Attempts

IsSkipRetry(attempt, status) ==
    \/ attempt = Attempts
    \/ ~(status >= ServerErrorFloor)

\* An exception of an attempt is retried while attempts are left and its
\* class is one the installed aiohttp_retry retries by default.
IsExcRetried(attempt, retried) ==
    /\ attempt < Attempts
    /\ retried

\* await response.json().
ResponseJson(body) ==
    IF body = NotJson THEN Raise("JSONDecodeError") ELSE Ok(body)

\* fetch_url_with_retries on the final outcome of the retry client.
FetchResult(resp) ==
    IF resp.err THEN Raise("ClientError")
    ELSE IF resp.status = StatusOK THEN ResponseJson(resp.body)
    ELSE Ok(None)

(***************************************************************************)
(* The providers after the fetch returned `fr` (Ok(data) or Raise(exc)):   *)
(* the value returned or the exception raised, and the cache afterwards.   *)
(***************************************************************************)
\* Outcome dropping the entry when the provider did not write it.
OutcomeClearing(res, cache, wrote) ==
    [res |-> res, cache |-> IF wrote THEN cache ELSE EmptyCache, wrote |-> wrote]

Outcome(res, cache, wrote) == [res |-> res, cache |-> cache, wrote |-> wrote]

\* The end of a provider: the cached value if it is unexpired, else None.
Fallback(cache, time) == Outcome(Ok(TTLCacheGet(cache, time)), cache, FALSE)

\* The end of a provider's try block, f being the result of its float(...):
\* the value is written to the cache and returned; an exception the except
\* clause names leads to the fallback, any other leaves the provider.
Coerced(f, caught, cache, ttl, time) ==
    IF f.ok THEN Outcome(Ok(JNum(f.v)), TTLCacheSet(cache, f.v, ttl, time), TRUE)
    ELSE IF f.exc \in caught THEN Fallback(cache, time)
    ELSE Outcome(f, cache, FALSE)

SupplyCaught == {"ValueError"}

\* GetCirculatingSupply serving an unexpired entry instead of what it fetched.
GetCirculatingSupplyCacheFirst(fr, cache, time) ==
    IF ~fr.ok THEN Outcome(fr, cache, FALSE)
    ELSE IF TTLCacheGet(cache, time) # None THEN Fallback(cache, time)
    ELSE IF fr.v # None
    THEN Coerced(PyFloat(fr.v), SupplyCaught, cache, SupplyTTL, time)
    ELSE Fallback(cache, time)

GetCirculatingSupply(fr, cache, time) ==
    IF ~fr.ok THEN Outcome(fr, cache, FALSE)
    ELSE IF fr.v # None
    THEN Coerced(PyFloat(fr.v), SupplyCaught, cache, SupplyTTL, time)
    ELSE Fallback(cache, time)

DataKey == <<"d", "a", "t", "a">>

\* data and 'data' in data and len(data['data']) > 0
PriceCondition(data) ==
    IF ~Truthy(data) THEN Ok(FALSE)
    ELSE LET c == PyIn("data", DataKey, data)
         IN IF ~c.ok THEN c
            ELSE IF ~c.v THEN Ok(FALSE)
            ELSE LET g == PyGetKey("data", data)
                 IN IF ~g.ok THEN g
                    ELSE LET l == PyLen(g.v)
                         IN IF ~l.ok THEN l ELSE Ok(l.v > 0)

\* float(data['data'][0]['last'])
PriceExtract(data) ==
    LET g == PyGetKey("data", data)
    IN IF ~g.ok THEN g
       ELSE LET f0 == PyFirst(g.v)
            IN IF ~f0.ok THEN f0
               ELSE LET l == PyGetKey("last", f0.v)
                    IN IF ~l.ok THEN l ELSE PyFloat(l.v)

PriceCaught == {"ValueError", "KeyError", "TypeError"}

GetAndrPrice(fr, cache, time) ==
    IF ~fr.ok THEN Outcome(fr, cache, FALSE)
    ELSE LET c == PriceCondition(fr.v)
         IN IF ~c.ok THEN Outcome(c, cache, FALSE)
            ELSE IF c.v
            THEN Coerced(PriceExtract(fr.v), PriceCaught, cache, PriceTTL, time)
            ELSE Fallback(cache, time)

\* MarketCapText testing the supply alone for None.
MarketCapTextSupplyOnly(circulating_supply, last_price) ==
    IF circulating_supply = None THEN FailureText
    ELSE IF last_price = None
    THEN ReplyPrefix \o FormatMarketCap(circulating_supply.n)
    ELSE ReplyPrefix \o FormatMarketCap(Mul(circulating_supply.n, last_price.n))

\* MarketCapText testing the values for truth instead of for None.
MarketCapTextTruthy(circulating_supply, last_price) ==
    IF ~Truthy(circulating_supply) \/ ~Truthy(last_price) THEN FailureText
    ELSE ReplyPrefix \o FormatMarketCap(Mul(circulating_supply.n, last_price.n))

\* The text market_cap replies with.
MarketCapText(circulating_supply, last_price) ==
    IF circulating_supply = None \/ last_price = None THEN FailureText
    ELSE ReplyPrefix \o FormatMarketCap(Mul(circulating_supply.n, last_price.n))

(***************************************************************************)
(* What the two endpoints may answer.                                      *)
(***************************************************************************)
Chars(n) ==
    CASE n = 1 -> <<"1", "0", "0", "0">>
      [] n = 2 -> <<"N", "/", "A">>
      [] n = 3 -> <<"0", ".", "0", "8", "2", "3">>
      [] n = 4 -> <<"a", "b", "c">>
      [] n = 5 -> <<VerticalTab, "1", "_", "2", "0", "0", "e", "3", "\n">>
      [] n = 6 -> <<"+", ".", "5", "E", "-", "1">>

SupplyBodies ==
    { JNum(Dec(12, 7)), JStr(Chars(1)), JStr(Chars(2)),
      JObj([code |-> JNum(Dec(5, 2))]), JList(<<>>), None, NotJson }

Ticker(rec) == JObj([code |-> JNum(Dec(2, 2)), data |-> JList(<<rec>>)])

PriceBodies ==
    { Ticker(JObj([symbol |-> JStr(Chars(4)), last |-> JStr(Chars(3))])),
      Ticker(JObj([symbol |-> JStr(Chars(4)), last |-> JNum(Dec(15, -1))])),
      Ticker(JObj([symbol |-> JStr(Chars(4)), last |-> JStr(Chars(4))])),
      Ticker(JObj([symbol |-> JStr(Chars(4))])),
      JObj([code |-> JNum(Dec(2, 2)), data |-> JList(<<>>)]),
      JObj([code |-> JNum(Dec(2, 2)), data |-> JNum(Dec(5, 0))]),
      JObj([code |-> JNum(Dec(5, 2))]),
      JNum(Dec(5, 0)), JList(<<JNum(Dec(1, 0))>>), None, NotJson }

Providers == {"supply", "price"}

Bodies(p) == IF p = "supply" THEN SupplyBodies ELSE PriceBodies

\* The values the endpoints hold: 120,000,000 and 0.0823, or 1000 and 1.5.
ExampleSupply == Dec(12, 7)
ExamplePrice == Dec(823, -4)
OtherSupply == Dec(1, 3)
OtherPrice == Dec(15, -1)

\* The bodies that hold a value, two for each endpoint.
GoodSupplyBodies == {JNum(ExampleSupply), JStr(Chars(1))}

GoodPriceBodies ==
    { Ticker(JObj([symbol |-> JStr(Chars(4)), last |-> JStr(Chars(3))])),
      Ticker(JObj([symbol |-> JStr(Chars(4)), last |-> JNum(OtherPrice)])) }

GoodBodies(p) == IF p = "supply" THEN GoodSupplyBodies ELSE GoodPriceBodies

\* A transport error or timeout of an attempt; `retry` tells whether the
\* retry client retries exceptions of its class.
TransportError(retry) == [err |-> TRUE, retry |-> retry, status |-> 0, body |-> None]
Response(status, body) == [err |-> FALSE, retry |-> FALSE, status |-> status, body |-> body]
NoResponse == Response(0, None)

\* The outcomes of one HTTP attempt against the endpoint of provider p.
Outcomes(p) ==
    {TransportError(b) : b \in BOOLEAN}
      \cup {Response(st, None) : st \in {404, 500}}
      \cup {Response(StatusOK, b) : b \in Bodies(p)}

\* The outcomes of an endpoint that is up, down or out of reach and holds a
\* value, or answers with a page that is no JSON.
FewOutcomes(p) ==
    {TransportError(FALSE), Response(500, None), Response(StatusOK, NotJson)}
      \cup {Response(StatusOK, b) : b \in GoodBodies(p)}

\* Endpoints that hold a number, or answer 404: the supply m * 10^e as a
\* JSON number, the price in tenths as the JSON number of the record's
\* 'last', a string float() reads with blanks, an underscore, a sign and an
\* exponent; and the two values each endpoint holds above.
SupplyExps == {0, 3, 7}

NumericSupplyBodies ==
    {JNum(Dec(m, e)) : m \in 0..MaxSupplyMantissa, e \in SupplyExps}
      \cup {JStr(Chars(5))}

NumericPriceBodies ==
    {Ticker(JObj([symbol |-> JStr(Chars(4)), last |-> v])) :
        v \in {JNum(Dec(k, -1)) : k \in 0..MaxPriceTenths} \cup {JStr(Chars(6))}}

NumericBodies(p) ==
    IF p = "supply" THEN NumericSupplyBodies ELSE NumericPriceBodies

NumericOutcomes(p) ==
    {Response(404, None)}
      \cup {Response(StatusOK, b) : b \in NumericBodies(p) \cup GoodBodies(p)}

(***************************************************************************)
(* State.                                                                  *)
(***************************************************************************)
\* Updates are handled one after the other (the Application is built without
\* concurrent_updates and the handlers block), so that one call of
\* market_cap runs at a time: one handler task.
Tasks == {1}

\* Callers of the providers that overlap: two handler tasks whose awaits
\* (lines 31 and 50) a scheduler interleaves. main() dispatches one update
\* at a time, so the executions of this dispatch contain the program's and
\* more; a property of every step of them is one of every step of the
\* program, under any dispatch.
Callers == {1, 2}

VARIABLES
    now,                       \* the caches' timer
    ticks,                     \* how often the timer advanced
    started,                   \* how many updates were dispatched
    circulating_supply_cache,  \* TTLCache(maxsize=1, ttl=86400)
    price_cache,               \* TTLCache(maxsize=1, ttl=300)
    wrote,                     \* per cache: its last write, [has, val, at]
    pc,                        \* per handler task: where market_cap is
    attempt,                   \* per task: attempts of its current fetch
    inflight,                  \* per task: the outcome of its last attempt
    circulating_supply,        \* per task: market_cap's local
    last_price,                \* per task: market_cap's local
    replies,                   \* per task: the texts this invocation replied
    raised,                    \* per task: the exception that left market_cap
    got,                       \* per task and provider: how the value was got
    prev,                      \* the invocation before the current one, as it ended
    called                     \* per task: the providers market_cap has called, in order

vars == <<now, ticks, started, circulating_supply_cache, price_cache, wrote,
          pc, attempt, inflight, circulating_supply, last_price, replies,
          raised, got, prev, called>>

NoWrite == [has |-> FALSE, val |-> Zero, at |-> 0]
NotGot == [p \in Providers |-> "none"]
NoPrev ==
    [has |-> FALSE, replies |-> <<>>, got |-> NotGot, at |-> 0,
     wrote |-> [p \in Providers |-> NoWrite]]

InitOf(T) ==
    /\ now = 0
    /\ ticks = 0
    /\ started = 0
    /\ circulating_supply_cache = EmptyCache
    /\ price_cache = EmptyCache
    /\ wrote = [p \in Providers |-> NoWrite]
    /\ pc = [t \in T |-> "idle"]
    /\ attempt = [t \in T |-> 0]
    /\ inflight = [t \in T |-> NoResponse]
    /\ circulating_supply = [t \in T |-> None]
    /\ last_price = [t \in T |-> None]
    /\ replies = [t \in T |-> <<>>]
    /\ raised = [t \in T |-> ""]
    /\ got = [t \in T |-> NotGot]
    /\ prev = NoPrev
    /\ called = [t \in T |-> <<>>]

Init == InitOf(Tasks)

\* The state before two overlapping callers.
InitInterleave == InitOf(Callers)

Phase(t) ==
    IF pc[t] \in {"supply_send", "supply_retry", "supply_wait"} THEN "supply"
    ELSE IF pc[t] \in {"price_send", "price_retry", "price_wait"} THEN "price"
    ELSE "none"

Active(t) == pc[t] \notin {"idle", "done"}

\* Whether the retry client issues another attempt after this outcome.
Retries(a, r) ==
    IF r.err THEN IsExcRetried(a, r.retry)
    ELSE ~IsSkipRetry(a, r.status)

\* The steps the timer may advance by.
TickSteps == {1, PriceTTL - 1, SupplyTTL - 1}

\* Time passes while a request is awaited. The timer is read only when a
\* fetch has ended, so it is advanced while a final outcome is awaited.
Tick(d) ==
    /\ ticks < MaxTicks
    /\ \E t \in Tasks :
          /\ pc[t] \in {"supply_wait", "price_wait"}
          /\ ~Retries(attempt[t], inflight[t])
    /\ now' = now + d
    /\ ticks' = ticks + 1
    /\ UNCHANGED <<started, circulating_supply_cache, price_cache, wrote, pc,
                   attempt, inflight, circulating_supply, last_price, replies,
                   raised, got, prev, called>>

\* The invocation task t has ended, as it ended.
Ended(t) ==
    [has |-> TRUE, replies |-> replies[t], got |-> got[t], at |-> now,
     wrote |-> wrote]

\* The dispatcher calls market_cap for an update, once the previous update
\* is handled.
MarketCapStart(t, limit, track) ==
    /\ started < limit
    /\ pc[t] \in {"idle", "done"}
    /\ started' = started + 1
    /\ pc' = [pc EXCEPT ![t] = "supply_send"]
    /\ circulating_supply' = [circulating_supply EXCEPT ![t] = None]
    /\ last_price' = [last_price EXCEPT ![t] = None]
    /\ replies' = [replies EXCEPT ![t] = <<>>]
    /\ raised' = [raised EXCEPT ![t] = ""]
    /\ got' = [got EXCEPT ![t] = NotGot]
    /\ prev' = IF track /\ pc[t] = "done" THEN Ended(t) ELSE prev
    /\ called' = [called EXCEPT ![t] = <<"supply">>]
    /\ UNCHANGED <<now, ticks, circulating_supply_cache, price_cache, wrote,
                   attempt, inflight>>

\* retry_client.get: an HTTP attempt is issued, and the endpoint decides what
\* it answers.
Send(t, r) ==
    /\ pc[t] \in {"supply_send", "supply_retry", "price_send", "price_retry"}
    /\ attempt' = [attempt EXCEPT ![t] =
                      IF pc[t] \in {"supply_send", "price_send"} THEN 1 ELSE @ + 1]
    /\ inflight' = [inflight EXCEPT ![t] = r]
    /\ pc' = [pc EXCEPT ![t] = Phase(t) \o "_wait"]
    /\ UNCHANGED <<now, ticks, started, circulating_supply_cache, price_cache,
                   wrote, circulating_supply, last_price, replies, raised, got,
                   prev, called>>

\* The attempt's outcome arrives and the retry client tries again.
RecvRetry(t) ==
    /\ pc[t] \in {"supply_wait", "price_wait"}
    /\ Retries(attempt[t], inflight[t])
    /\ pc' = [pc EXCEPT ![t] = Phase(t) \o "_retry"]
    /\ UNCHANGED <<now, ticks, started, circulating_supply_cache, price_cache,
                   wrote, attempt, inflight, circulating_supply, last_price,
                   replies, raised, got, prev, called>>

Written(w, out, time) ==
    IF out.wrote THEN [has |-> TRUE, val |-> out.res.v.n, at |-> time] ELSE w

\* How a provider came to its result: by writing a fetched value ("fresh"),
\* after a 200 answer it could not use ("bad"), or after a failed fetch.
GotKind(r, out) ==
    IF out.wrote THEN "fresh"
    ELSE IF ~r.err /\ r.status = StatusOK THEN "bad"
    ELSE "failed"

\* get_circulating_supply ends with `out`, and market_cap goes on to
\* get_andr_price unless an exception escaped.
SupplyEnds(t, out) ==
    /\ circulating_supply_cache' = out.cache
    /\ wrote' = [wrote EXCEPT !["supply"] = Written(@, out, now)]
    /\ got' = [got EXCEPT ![t]["supply"] = GotKind(inflight[t], out)]
    /\ IF out.res.ok
       THEN /\ circulating_supply' = [circulating_supply EXCEPT ![t] = out.res.v]
            /\ pc' = [pc EXCEPT ![t] = "price_send"]
            /\ raised' = raised
            /\ called' = [called EXCEPT ![t] = Append(@, "price")]
       ELSE /\ circulating_supply' = circulating_supply
            /\ pc' = [pc EXCEPT ![t] = "raised"]
            /\ raised' = [raised EXCEPT ![t] = out.res.exc]
            /\ called' = called

\* The final outcome arrives: get_circulating_supply runs to its end.
SupplyDone(t) ==
    /\ pc[t] = "supply_wait"
    /\ ~Retries(attempt[t], inflight[t])
    /\ SupplyEnds(t, GetCirculatingSupply(FetchResult(inflight[t]),
                                         circulating_supply_cache, now))
    /\ UNCHANGED <<now, ticks, started, price_cache, attempt, inflight,
                   last_price, replies, prev>>

\* get_andr_price ends with `out`.
PriceEnds(t, out) ==
    /\ price_cache' = out.cache
    /\ wrote' = [wrote EXCEPT !["price"] = Written(@, out, now)]
    /\ got' = [got EXCEPT ![t]["price"] = GotKind(inflight[t], out)]
    /\ IF out.res.ok
       THEN /\ last_price' = [last_price EXCEPT ![t] = out.res.v]
            /\ pc' = [pc EXCEPT ![t] = "reply"]
            /\ raised' = raised
       ELSE /\ last_price' = last_price
            /\ pc' = [pc EXCEPT ![t] = "raised"]
            /\ raised' = [raised EXCEPT ![t] = out.res.exc]

\* PriceDone dropping the supply entry as well.
PriceDoneClearingSupply(t) ==
    /\ pc[t] = "price_wait"
    /\ ~Retries(attempt[t], inflight[t])
    /\ PriceEnds(t, GetAndrPrice(FetchResult(inflight[t]), price_cache, now))
    /\ circulating_supply_cache' = EmptyCache
    /\ UNCHANGED <<now, ticks, started, attempt, inflight, circulating_supply,
                   replies, prev, called>>

\* The final outcome arrives: get_andr_price runs to its end.
PriceDone(t) ==
    /\ pc[t] = "price_wait"
    /\ ~Retries(attempt[t], inflight[t])
    /\ PriceEnds(t, GetAndrPrice(FetchResult(inflight[t]), price_cache, now))
    /\ UNCHANGED <<now, ticks, started, circulating_supply_cache, attempt,
                   inflight, circulating_supply, replies, prev, called>>

\* What update.message.reply_text(...) comes to: the text is sent; the
\* update carries no message (an edited one: update.message is None and the
\* attribute access raises); or the call to the Bot API fails.
ReplyOutcomes == {Ok(TRUE), Raise("AttributeError"), Raise("TelegramError")}

\* market_cap replies and returns, or the reply raises and nothing is sent.
Reply(t, r) ==
    /\ pc[t] = "reply"
    /\ IF r.ok
       THEN /\ replies' = [replies EXCEPT ![t] =
                   Append(@, MarketCapText(circulating_supply[t], last_price[t]))]
            /\ pc' = [pc EXCEPT ![t] = "done"]
            /\ raised' = raised
            /\ attempt' = [attempt EXCEPT ![t] = 0]
            /\ inflight' = [inflight EXCEPT ![t] = NoResponse]
       ELSE /\ replies' = replies
            /\ pc' = [pc EXCEPT ![t] = "reply_raised"]
            /\ raised' = [raised EXCEPT ![t] = r.exc]
            /\ attempt' = attempt
            /\ inflight' = inflight
    /\ UNCHANGED <<now, ticks, started, circulating_supply_cache, price_cache,
                   wrote, circulating_supply, last_price, got, prev, called>>

\* An exception left market_cap, out of a provider or out of the reply: the
\* dispatcher logs it and nothing more is replied.
HandlerFailed(t) ==
    /\ pc[t] \in {"raised", "reply_raised"}
    /\ pc' = [pc EXCEPT ![t] = "done"]
    /\ attempt' = [attempt EXCEPT ![t] = 0]
    /\ inflight' = [inflight EXCEPT ![t] = NoResponse]
    /\ UNCHANGED <<now, ticks, started, circulating_supply_cache, price_cache,
                   wrote, circulating_supply, last_price, replies, raised, got,
                   prev, called>>

(***************************************************************************)
(* The bot as main() builds it: updates are handled one after the other.   *)
(***************************************************************************)
Next ==
    \/ \E d \in TickSteps : Tick(d)
    \/ \E t \in Tasks : MarketCapStart(t, MaxInvocations, FALSE)
    \/ \E t \in Tasks : \E r \in Outcomes(Phase(t)) : Send(t, r)
    \/ \E t \in Tasks : RecvRetry(t)
    \/ \E t \in Tasks : SupplyDone(t)
    \/ \E t \in Tasks : PriceDone(t)
    \/ \E t \in Tasks : \E r \in ReplyOutcomes : Reply(t, r)
    \/ \E t \in Tasks : HandlerFailed(t)

Spec == Init /\ [][Next]_vars

(***************************************************************************)
(* The bot handling one more update, against endpoints that are up or down *)
(* and hold a value; the invocation before the current one is recorded.    *)
(***************************************************************************)
NextIdem ==
    \/ Tick(PriceTTL - 1)
    \/ \E t \in Tasks : MarketCapStart(t, MaxInvocations + 1, TRUE)
    \/ \E t \in Tasks : \E r \in FewOutcomes(Phase(t)) : Send(t, r)
    \/ \E t \in Tasks : RecvRetry(t)
    \/ \E t \in Tasks : SupplyDone(t)
    \/ \E t \in Tasks : PriceDone(t)
    \/ \E t \in Tasks : \E r \in ReplyOutcomes : Reply(t, r)
    \/ \E t \in Tasks : HandlerFailed(t)

SpecIdem == Init /\ [][NextIdem]_vars

(***************************************************************************)
(* One update handled against endpoints that hold numbers or answer 404:   *)
(* the values market_cap multiplies and formats range over NumericBodies.  *)
(***************************************************************************)
NextFormat ==
    \/ \E t \in Tasks : MarketCapStart(t, 1, FALSE)
    \/ \E t \in Tasks : \E r \in NumericOutcomes(Phase(t)) : Send(t, r)
    \/ \E t \in Tasks : SupplyDone(t)
    \/ \E t \in Tasks : PriceDone(t)
    \/ \E t \in Tasks : \E r \in ReplyOutcomes : Reply(t, r)
    \/ \E t \in Tasks : HandlerFailed(t)

SpecFormat == Init /\ [][NextFormat]_vars

(***************************************************************************)
(* The providers under callers that overlap, against endpoints that answer *)
(* with a value they hold or with 404: between the request of one caller's *)
(* provider and its answer, the other caller's providers take their steps. *)
(***************************************************************************)
PromptOutcomes(p) ==
    {Response(404, None)} \cup {Response(StatusOK, b) : b \in GoodBodies(p)}

NextInterleave ==
    \/ \E t \in Callers : MarketCapStart(t, MaxInvocations, FALSE)
    \/ \E t \in Callers : \E r \in PromptOutcomes(Phase(t)) : Send(t, r)
    \/ \E t \in Callers : SupplyDone(t)
    \/ \E t \in Callers : PriceDone(t)
    \/ \E t \in Callers : \E r \in ReplyOutcomes : Reply(t, r)
    \/ \E t \in Callers : HandlerFailed(t)

SpecInterleave == InitInterleave /\ [][NextInterleave]_vars

(***************************************************************************)
(* What the claims speak of.                                               *)
(***************************************************************************)
TTL(p) == IF p = "supply" THEN SupplyTTL ELSE PriceTTL

CacheOf(p) == IF p = "supply" THEN circulating_supply_cache ELSE price_cache

\* Provider p of task t returned its result in the last step of the task.
Returned(t, p) ==
    IF p = "supply" THEN pc[t] = "price_send" ELSE pc[t] = "reply"

\* An exception left provider p of task t in the last step of the task.
Escaped(t, p) ==
    /\ pc[t] = "raised"
    /\ IF p = "supply" THEN got[t]["price"] = "none" ELSE got[t]["price"] # "none"

\* Provider p of task t has just ended; inflight[t] and attempt[t] are the
\* final outcome and the number of attempts of its fetch.
JustEnded(t, p) == Returned(t, p) \/ Escaped(t, p)

\* What provider p returned to market_cap.
Result(t, p) == IF p = "supply" THEN circulating_supply[t] ELSE last_price[t]

\* The upstream call failed: a transport error, a status other than 200 or
\* a body that is no JSON.
FetchFailed(r) == r.err \/ r.status # StatusOK \/ r.body = NotJson

\* The entry of cache p, by the time it was written at, has not expired.
Unexpired(p) == wrote[p].has /\ now < wrote[p].at + TTL(p)

\* C1 (as claimed): when the upstream call of a provider failed and its cache
\* entry is unexpired, the provider returns the cached value, and nothing
\* escapes.
C1_FallbackOnFailure ==
    \A t \in Tasks : \A p \in Providers :
        (JustEnded(t, p) /\ FetchFailed(inflight[t]) /\ Unexpired(p))
            => (Returned(t, p) /\ Result(t, p) = JNum(wrote[p].val))

\* C2 (as claimed): when the upstream call of a provider failed and its cache
\* is empty or expired, the provider returns None.
C2_ColdStartFailure ==
    \A t \in Tasks : \A p \in Providers :
        (JustEnded(t, p) /\ FetchFailed(inflight[t]) /\ ~Unexpired(p))
            => (Returned(t, p) /\ Result(t, p) = None)

\* C3 (as claimed): an invocation of market_cap that has ended has sent
\* exactly one reply, and no exception left a provider or market_cap.
C3_OneReplyNoException ==
    \A t \in Tasks :
        /\ pc[t] # "raised"
        /\ pc[t] = "done" => (Len(replies[t]) = 1 /\ raised[t] = "")

\* Every attempt of the fetch failed: the final outcome is a transport error
\* or a status other than 200 (an outcome that was retried is always one).
AllAttemptsFailed(r) == r.err \/ r.status # StatusOK

\* C4 (as claimed): a fetch whose every attempt failed, with whatever status,
\* has issued exactly 3 attempts and reports failure.
C4_ExactlyThreeAttempts ==
    \A t \in Tasks : \A p \in Providers :
        (JustEnded(t, p) /\ AllAttemptsFailed(inflight[t]))
            => (attempt[t] = Attempts /\ Returned(t, p))

\* C5: a reply is the failure text exactly when a provider returned None;
\* otherwise both values are present and the reply is another text.
C5_NoPartialResult ==
    \A t \in Tasks :
        (pc[t] = "done" /\ replies[t] # <<>>)
            => /\ Len(replies[t]) = 1
               /\ (circulating_supply[t] = None \/ last_price[t] = None)
                     <=> (replies[t][1] = FailureText)

\* C5 witness: the price was fetched, the supply is None, the reply is the
\* failure text.
C5_Witness ==
    \E t \in Tasks :
        /\ pc[t] = "done"
        /\ got[t]["price"] = "fresh"
        /\ last_price[t] # None
        /\ circulating_supply[t] = None
        /\ replies[t] = <<FailureText>>

\* C6: a provider that fell back to its cache got the value last written,
\* while less than the TTL has passed since that write, and None from then on.
C6_CacheHonorsTTL ==
    \A t \in Tasks : \A p \in Providers :
        (Returned(t, p) /\ got[t][p] # "fresh")
            => Result(t, p) =
                  (IF wrote[p].has /\ now < wrote[p].at + TTL(p)
                   THEN JNum(wrote[p].val) ELSE None)

\* C6 witness: at the instant the price entry expires the price is read as
\* None, while the supply entry, written at the same time, is still served.
C6_Witness ==
    \E t \in Tasks :
        /\ pc[t] = "reply"
        /\ got[t]["supply"] = "failed"
        /\ got[t]["price"] = "failed"
        /\ wrote["price"].has
        /\ now = wrote["price"].at + PriceTTL
        /\ last_price[t] = None
        /\ circulating_supply[t] = JNum(wrote["supply"].val)

\* The price bodies of an unexpected shape.
MalformedPriceBodies == (PriceBodies \ GoodBodies("price")) \ {NotJson}

\* C7 (as claimed): on a 200 answer with a body of an unexpected shape
\* get_andr_price writes nothing, raises nothing and returns the unexpired
\* cached price, else None.
C7_MalformedPriceIsFailure ==
    \A t \in Tasks :
        (/\ JustEnded(t, "price")
         /\ ~inflight[t].err
         /\ inflight[t].status = StatusOK
         /\ inflight[t].body \in MalformedPriceBodies)
            => /\ Returned(t, "price")
               /\ got[t]["price"] = "bad"
               /\ last_price[t] = (IF Unexpired("price")
                                   THEN JNum(wrote["price"].val) ELSE None)

\* The supply bodies float() cannot convert.
UncoercibleSupplyBodies == {b \in SupplyBodies : b.t \in {"str", "obj", "list"}
                                                  /\ ~PyFloat(b).ok}

\* C8 (as claimed): on a 200 answer with a body that is no number
\* get_circulating_supply writes nothing, raises nothing and returns the
\* unexpired cached supply, else None.
C8_SupplyCoercionIsFailure ==
    \A t \in Tasks :
        (/\ JustEnded(t, "supply")
         /\ ~inflight[t].err
         /\ inflight[t].status = StatusOK
         /\ inflight[t].body \in UncoercibleSupplyBodies)
            => /\ Returned(t, "supply")
               /\ got[t]["supply"] = "bad"
               /\ circulating_supply[t] = (IF Unexpired("supply")
                                           THEN JNum(wrote["supply"].val) ELSE None)

\* The invocation that has just ended (updates are handled by task 1 one
\* after the other), to be compared with the one before it.
Current == Ended(1)

\* Invocation B ended while the entries invocation A left in both caches
\* were unexpired.
SameWindows(A, B) ==
    \A p \in Providers :
        /\ A.wrote[p].has
        /\ A.at < A.wrote[p].at + TTL(p)
        /\ B.at < A.wrote[p].at + TTL(p)

\* Nothing shows the endpoints to have changed between A and B: neither saw
\* a body it could not use, and where both fetched a value it is the same.
NoUpstreamChange(A, B) ==
    \A p \in Providers :
        /\ A.got[p] # "bad"
        /\ B.got[p] # "bad"
        /\ (A.got[p] = "fresh" /\ B.got[p] = "fresh")
              => A.wrote[p].val = B.wrote[p].val

\* The reply of task t raised: the exception that left market_cap is one of
\* update.message.reply_text(...).
ReplyRaised(t) == raised[t] \in {r.exc : r \in ReplyOutcomes \ {Ok(TRUE)}}

\* C10 (as claimed): of two invocations in the same TTL windows with no
\* upstream change, the first of which replied, the second replies the same
\* text, also when its fetch failed (the reply itself not failing).
C10_Idempotent ==
    (/\ prev.has /\ pc[1] = "done"
     /\ SameWindows(prev, Current)
     /\ NoUpstreamChange(prev, Current)
     /\ prev.replies # <<>>
     /\ ~ReplyRaised(1))
        => replies[1] = prev.replies

\* The characters of a formatted amount are digits in groups of three from
\* the right, the groups separated by commas, with no leading zero.
WellGrouped(s) ==
    /\ s # <<>>
    /\ Len(s) % 4 # 0
    /\ \A i \in 1..Len(s) :
          IF (Len(s) - i + 1) % 4 = 0 THEN s[i] = "," ELSE s[i] \in Digits
    /\ s[1] = "0" => Len(s) = 1

\* The integer a formatted amount reads as, its commas dropped.
GroupedValue(s) == BFromDigits(SelectSeq(s, LAMBDA c : c # ","))

\* n is an integer nearest to the finite float d >= 0, mant * 2^exp2:
\* |d - n| <= 1/2.
IsNearest(d, n) ==
    IF d.exp2 >= 0 THEN n = BShl(d.mant, d.exp2)
    ELSE LET scaled == BShl(n, 0 - d.exp2)
             diff == IF BCmp(d.mant, scaled) >= 0 THEN BSub(d.mant, scaled)
                     ELSE BSub(scaled, d.mant)
         IN BCmp(BShl(diff, 1), BShl(<<1>>, 0 - d.exp2)) <= 0


\* C11: when both values are present and no exception left market_cap, the
\* one reply is the prefix, a dollar sign and the floating-point product
\* supply x price rounded to a nearest integer, in groups of three digits
\* separated by commas; 120,000,000 x 0.0823 gives "$9,876,000". When the
\* reply itself raised, nothing was sent.
C11_MultiplicationCorrect ==
    \A t \in Tasks :
        /\ (pc[t] = "done" /\ raised[t] # "") => replies[t] = <<>>
        /\ (pc[t] = "done" /\ raised[t] = ""
              /\ circulating_supply[t] # None /\ last_price[t] # None)
            => LET product == Mul(circulating_supply[t].n, last_price[t].n)
                   chars == Group(RoundedDigits(product))
               IN /\ replies[t] = <<ReplyPrefix \o "$" \o Join(chars)>>
                  /\ WellGrouped(chars)
                  /\ IsNearest(product, GroupedValue(chars))
                  /\ (circulating_supply[t].n = ExampleSupply
                        /\ last_price[t].n = ExamplePrice)
                        => replies[t] = <<"ANDR Market Cap: $9,876,000">>

\* C11 witness: the reply to supply 120,000,000 and price 0.0823.
C11_Witness ==
    \E t \in Tasks :
        /\ pc[t] = "done"
        /\ circulating_supply[t] = JNum(ExampleSupply)
        /\ last_price[t] = JNum(ExamplePrice)
        /\ replies[t] = <<"ANDR Market Cap: $9,876,000">>

\* The fetch of provider p succeeded, and so did the coercion: the endpoint
\* answered 200 with a JSON body, and float() of the body (line 35), or of
\* the first record's 'last' where line 51 finds one (line 53), is a number.
FetchSucceeded(r, p) ==
    /\ ~r.err
    /\ r.status = StatusOK
    /\ r.body # NotJson
    /\ IF p = "supply" THEN r.body # None /\ PyFloat(r.body).ok
       ELSE PriceCondition(r.body) = Ok(TRUE) /\ PriceExtract(r.body).ok

\* Provider p of task t ends in this step, by returning or by raising.
ProviderEnds(t, p) ==
    /\ pc[t] = p \o "_wait"
    /\ pc'[t] \notin {p \o "_wait", p \o "_retry"}

\* C12: a provider invocation whose fetch did not succeed, however it ends,
\* leaves its cache as it was, value and expiry; and every step that changes
\* a cache is the end of a provider invocation whose fetch succeeded (time
\* passing changes no entry).
C12_FailureLeavesCache ==
    [][\A p \in Providers :
          /\ \A t \in Tasks :
                (ProviderEnds(t, p) /\ ~FetchSucceeded(inflight[t], p))
                    => CacheOf(p)' = CacheOf(p)
          /\ CacheOf(p)' # CacheOf(p)
                => \E t \in Tasks :
                      ProviderEnds(t, p) /\ FetchSucceeded(inflight[t], p)]_vars

\* C12 witness: a price fetch has failed some time after the entry was
\* written, and the entry still holds the value and the expiry of its write.
C12_Witness ==
    \E t \in Tasks :
        /\ JustEnded(t, "price")
        /\ ~FetchSucceeded(inflight[t], "price")
        /\ wrote["price"].has
        /\ now > wrote["price"].at
        /\ price_cache = [has |-> TRUE, val |-> wrote["price"].val,
                          expires |-> wrote["price"].at + PriceTTL]

\* The number a body that holds a value stands for: the supply endpoint's
\* 120000000 and "1000", the ticker's last "0.0823" and 1.5.
ValueHeld(p, body) ==
    IF p = "supply"
    THEN (IF body = JNum(ExampleSupply) THEN ExampleSupply ELSE OtherSupply)
    ELSE (IF body.o.data.l[1].o.last = JStr(Chars(3)) THEN ExamplePrice
          ELSE OtherPrice)

\* C13: a provider whose fetch succeeded with the value v at time T returns
\* v, and its cache then holds v with the expiry T + TTL, whatever it held.
C13_SuccessOverwrites ==
    \A t \in Tasks : \A p \in Providers :
        (JustEnded(t, p) /\ FetchSucceeded(inflight[t], p))
            => LET v == ValueHeld(p, inflight[t].body)
               IN /\ Returned(t, p)
                  /\ Result(t, p) = JNum(v)
                  /\ CacheOf(p) = [has |-> TRUE, val |-> v, expires |-> now + TTL(p)]

\* C13 witness: the price was fetched while the cache held another price,
\* written by the invocation before and not yet expired; the fetched one is
\* returned and has replaced it.
C13_Witness ==
    \E t \in Tasks :
        /\ Returned(t, "price")
        /\ FetchSucceeded(inflight[t], "price")
        /\ prev.has
        /\ prev.wrote["price"].has
        /\ now > prev.wrote["price"].at
        /\ now < prev.wrote["price"].at + PriceTTL
        /\ prev.wrote["price"].val # ValueHeld("price", inflight[t].body)
        /\ last_price[t] = JNum(ValueHeld("price", inflight[t].body))
        /\ price_cache.val = ValueHeld("price", inflight[t].body)
        /\ price_cache.expires = now + PriceTTL

\* The retry client is about to issue another attempt of task t's fetch.
AboutToRetry(t) == pc[t] \in {"supply_retry", "price_retry"}

\* C14: no fetch issues more than 3 attempts, and a fetch issues another
\* attempt only after an attempt that did not return status 200, so a 200
\* answer, whatever its body, is the last attempt of its fetch.
C14_NoRetryAfter200 ==
    \A t \in Tasks :
        /\ attempt[t] <= Attempts
        /\ AboutToRetry(t) => (inflight[t].err \/ inflight[t].status # StatusOK)

\* C14 witness: the second attempt of a price fetch returned 200 with a body
\* of the wrong shape, and the provider has ended without a third attempt.
C14_Witness ==
    \E t \in Tasks :
        /\ JustEnded(t, "price")
        /\ attempt[t] = 2
        /\ ~inflight[t].err
        /\ inflight[t].status = StatusOK
        /\ inflight[t].body \in MalformedPriceBodies

\* Task t takes a step while it is in provider p.
ProviderStep(t, p) == Phase(t) = p /\ pc'[t] # pc[t]

\* C15: every step of get_circulating_supply leaves price_cache as it is,
\* and every step of get_andr_price leaves circulating_supply_cache as it
\* is, value and expiry, whether the callers run one after the other or
\* interleaved.
C15_CacheOwnership ==
    [][\A t \in DOMAIN pc :
          /\ ProviderStep(t, "supply") => price_cache' = price_cache
          /\ ProviderStep(t, "price")
                => circulating_supply_cache' = circulating_supply_cache]_vars

\* C15 witness: one caller's get_andr_price has written price_cache
\* between the request and the answer of the other caller's
\* get_circulating_supply, and the supply entry is still the one
\* get_circulating_supply wrote before.
C15_Witness ==
    \E t \in DOMAIN pc : \E u \in DOMAIN pc \ {t} :
        /\ Returned(t, "price")
        /\ got[t]["price"] = "fresh"
        /\ pc[u] = "supply_wait"
        /\ wrote["supply"].has
        /\ wrote["supply"].val # price_cache.val
        /\ circulating_supply_cache =
              [has |-> TRUE, val |-> wrote["supply"].val,
               expires |-> wrote["supply"].at + SupplyTTL]
        /\ price_cache =
              [has |-> TRUE, val |-> wrote["price"].val,
               expires |-> wrote["price"].at + PriceTTL]

\* C16 (as claimed): an invocation of market_cap that has ended has called
\* the supply provider once and then the price provider once, and nothing
\* else, whatever the supply provider gave.
C16_EachProviderOnce ==
    \A t \in Tasks :
        pc[t] = "done" => called[t] = <<"supply", "price">>

\* C17: a value a provider returns was written to its cache by a successful
\* fetch less than the TTL before the provider read it (less than 300 s for
\* the price, 86400 s for the supply), and the two values a reply is about
\* to be computed from are such values.
C17_BoundedStaleness ==
    \A t \in Tasks :
        /\ \A p \in Providers :
              (Returned(t, p) /\ Result(t, p) # None)
                  => /\ wrote[p].has
                     /\ Result(t, p) = JNum(wrote[p].val)
                     /\ wrote[p].at <= now
                     /\ now - wrote[p].at < TTL(p)
        /\ (pc[t] = "reply" /\ circulating_supply[t] # None)
              => /\ wrote["supply"].has
                 /\ circulating_supply[t] = JNum(wrote["supply"].val)

\* C17 witness: the price fetch failed 299 s after the price was written,
\* and that price is what the reply will be computed from.
C17_Witness ==
    \E t \in Tasks :
        /\ pc[t] = "reply"
        /\ got[t]["price"] = "failed"
        /\ wrote["price"].has
        /\ now - wrote["price"].at = PriceTTL - 1
        /\ last_price[t] = JNum(wrote["price"].val)
        /\ circulating_supply[t] # None

\* C18: a provider that has ended has issued an HTTP request, whether or
\* not its cache held an unexpired entry; and a provider that returned
\* without writing its cache, so with what it read there, has ended on a
\* fetch that failed.
C18_FetchBeforeCache ==
    \A t \in Tasks : \A p \in Providers :
        /\ JustEnded(t, p) => (attempt[t] >= 1 /\ inflight[t] # NoResponse)
        /\ (Returned(t, p) /\ got[t][p] # "fresh")
              => ~FetchSucceeded(inflight[t], p)

\* C18 witness: the supply provider has fetched a new value while its cache
\* held an unexpired entry with another value.
C18_Witness ==
    \E t \in Tasks :
        /\ Returned(t, "supply")
        /\ FetchSucceeded(inflight[t], "supply")
        /\ attempt[t] >= 1
        /\ prev.has
        /\ prev.wrote["supply"].has
        /\ now < prev.wrote["supply"].at + SupplyTTL
        /\ prev.wrote["supply"].val # wrote["supply"].val
        /\ circulating_supply[t] = JNum(wrote["supply"].val)

\* The bodies a zero is fetched from: the supply 0, the record's 'last' 0.
ZeroBody(p) ==
    IF p = "supply" THEN JNum(Zero)
    ELSE Ticker(JObj([symbol |-> JStr(Chars(4)), last |-> JNum(Zero)]))

\* C19: a provider that fetched 0 caches 0.0 and returns it, not None; when
\* no exception left market_cap, the reply computed from a zero supply or a
\* zero price is the amount "$0"; and the reply is the failure text only
\* when a provider returned None.
C19_ZeroIsPresent ==
    \A t \in Tasks :
        /\ \A p \in Providers :
              (JustEnded(t, p) /\ ~inflight[t].err
                 /\ inflight[t].status = StatusOK /\ inflight[t].body = ZeroBody(p))
                  => /\ Returned(t, p)
                     /\ Result(t, p) = JNum(Zero)
                     /\ CacheOf(p) = [has |-> TRUE, val |-> Zero,
                                      expires |-> now + TTL(p)]
        /\ (pc[t] = "done" /\ raised[t] = ""
              /\ (circulating_supply[t] = JNum(Zero) \/ last_price[t] = JNum(Zero)))
              => replies[t] = (IF circulating_supply[t] = None \/ last_price[t] = None
                               THEN <<FailureText>>
                               ELSE <<"ANDR Market Cap: $0">>)
        /\ (pc[t] = "done" /\ replies[t] = <<FailureText>>)
              => (circulating_supply[t] = None \/ last_price[t] = None)

\* C19 witness: the supply endpoint held 0, the price was present, and the
\* reply is "$0".
C19_Witness ==
    \E t \in Tasks :
        /\ pc[t] = "done"
        /\ circulating_supply[t] = JNum(Zero)
        /\ circulating_supply_cache.has
        /\ circulating_supply_cache.val = Zero
        /\ last_price[t] = JNum(ExamplePrice)
        /\ replies[t] = <<"ANDR Market Cap: $0">>
====
